---- MODULE Spec2Model ----
(***************************************************************************)
(* Model of the useGame hook (playerone/src/dojo/hooks/useGame.tsx): the   *)
(* transaction coordinator that drives createGame / joinGame / startGame   *)
(* against the ledger client, together with the parts of the zustand app   *)
(* store it writes (currentGame, gameStarted, isLoading).                  *)
(*                                                                         *)
(* React semantics that the model keeps:                                   *)
(*  - a useState value read inside a callback is the value captured by the *)
(*    render that created the callback (cbIsProcessing), not the latest    *)
(*    value handed to the setter (isProcessing);                           *)
(*  - setGameState(prev => ...) updaters are applied in call order to the  *)
(*    latest state, so gameState below is the state after all updaters;    *)
(*  - an async function runs synchronously up to its first await; each     *)
(*    await is a suspension point and a separate action.                   *)
(*                                                                         *)
(* The second half models the GameInterface component (unnamed/part_001):  *)
(* the resolution of the effective game / player identity, the one-time    *)
(* snapshot request, the socket event handlers and the finished / rematch  *)
(* effect with its notifications.  An effect is a step of its own: it runs *)
(* after the render that follows a change of its dependencies, and events  *)
(* may be handled in between.                                              *)
(***************************************************************************)
EXTENDS Integers, FiniteSets, Sequences, TLC

\* ---------------------------------------------------------------- bounds
MaxCalls == 2          \* lifecycle invocations explored in one behaviour
MaxEmits == 3          \* socket.emit calls explored in one behaviour
MaxEvents == 4         \* socket events delivered in one behaviour
MaxRound == 2          \* highest round number of the game states explored
MaxSubmits == 2        \* clicks on Confirm explored in one behaviour
MaxFetches == 3        \* player fetches started in one behaviour

\* ------------------------------------------------------------- constants
Null == "null"         \* JavaScript null / undefined

Ops == {"createGame", "joinGame", "startGame"}
Statuses == {"disconnected", "connected"}
GameIds == {"g1"}
MaxRoundsValues == {3} \* the maxRounds arguments createGame is called with
Codes == {"SUCCESS", "FAILED"}

AlreadyProcessingError == "Already processing a game action"

VARIABLES
  gameState,        \* useState<GameActionState>
  isProcessing,     \* useState(false): latest value given to setIsProcessing
  cbIsProcessing,   \* isProcessing as captured by the callbacks of the last render
  status,           \* useStarknetConnect().status as of the last render
  account,          \* useAccount().account is set, as of the last render
  player,           \* usePlayer().player is set, as of the last render
  currentGame,      \* app store: currentGame
  gameStarted,      \* app store: gameStarted
  isLoading,        \* app store: isLoading
  calls,            \* the invocations of createGame / joinGame / startGame:
                    \* position and locals of each while it runs
  lastReturn,       \* the GameActionResponse returned most recently
  nCalls,           \* number of invocations made so far
  uuidCount,        \* number of uuidv4() values handed out
  ledgerLog,        \* invocations of client.actions.*, as the calling invocation
  confirmLog,       \* dojoState.confirmTransaction calls: <<invocation, id>>
  revertLog         \* dojoState.revertOptimisticUpdate calls: <<invocation, id>>

\* GameInterface
VARIABLES
  socketContext,          \* useSocket(): socket, connected, gameId, playerId,
                          \* playerName as of the last render
  storedGameInfo,         \* localStorage item 'currentGameInfo'
  effectiveGameId,        \* useState<string | null>
  effectivePlayerId,      \* useState<string | null>
  effectivePlayerName,    \* useState<string | null>
  contextLoaded,          \* useState(false)
  gameStateRequestedRef,  \* useRef(false).current
  identityEffectDue,      \* the identity effect has to run (mount, or its
                          \* dependencies changed)
  requestEffectDue,       \* the snapshot request effect has to run
  emitted,                \* the socket.emit calls made, in order
  storageRead,            \* the last run of the identity effect called
                          \* localStorage.getItem
  requestedSinceConnect,  \* the effect emitted a snapshot request since
                          \* connected last became true
  sessionState,           \* useState<GameState | null> (gameState of the
                          \* component)
  gameFinished,           \* useState(false)
  showWinnerModal,        \* useState(false)
  notifications,          \* useState<string[]>([])
  notificationTimers,     \* pending 5000 ms timeouts of addNotification, in
                          \* the order they were set
  finishedEffectDeps,     \* dependencies of the finished / rematch effect as
                          \* of its last run
  nEvents,                \* number of socket events delivered so far
  lastEvent,              \* the socket event delivered most recently
  exitTimers,             \* pending 3000 ms timeouts of the 'game-closed'
                          \* handler
  clearGameInfoCalls,     \* number of calls of clearGameInfo()
  onExitGameCalls,        \* number of calls of onExitGame()
  currentPlayer,          \* useState<Player | null>(null)
  selectedAction,         \* useState<Action['type']>('buy')
  selectedResource,       \* useState('gold')
  amount,                 \* useState<number>(1)
  targetPlayer,           \* useState<string>('')
  submits,                \* number of handleAction() invocations so far
  viewState,              \* the game state the actionsByRound memo is
                          \* computed from
  interfaceStarted,       \* useState(false): gameStarted of the component
  exitClicks              \* number of clicks on an exit button so far

\* usePlayer
VARIABLES
  playerAccount,          \* useAccount().account: its address, or null
  storePlayer,            \* app store: player
  playerIsLoading,        \* useState<boolean>(true): isLoading of usePlayer
  playerError,            \* useState<Error | null>(null)
  playerFetches,          \* the fetchPlayerData calls awaited, as the
                          \* address each was made with
  nFetches,               \* number of fetchPlayerData calls made so far
  playerEffectDeps        \* userAddress and account as of the last run of
                          \* the two effects

hookVars == <<gameState, isProcessing, cbIsProcessing, status, account, player,
              currentGame, gameStarted, isLoading, calls, lastReturn, nCalls,
              uuidCount, ledgerLog, confirmLog, revertLog>>

identityVars == <<socketContext, storedGameInfo, effectiveGameId,
                  effectivePlayerId, effectivePlayerName, contextLoaded,
                  gameStateRequestedRef, identityEffectDue, requestEffectDue,
                  emitted, storageRead, requestedSinceConnect>>

sessionVars == <<sessionState, gameFinished, showWinnerModal, notifications,
                 notificationTimers, finishedEffectDeps, nEvents, lastEvent>>

exitVars == <<exitTimers, clearGameInfoCalls, onExitGameCalls>>

inputVars == <<currentPlayer, selectedAction, selectedResource, amount,
               targetPlayer, submits>>

stageVars == <<interfaceStarted, exitClicks>>

playerVars == <<playerAccount, storePlayer, playerIsLoading, playerError,
                playerFetches, nFetches, playerEffectDeps>>

panelVars == <<exitVars, inputVars, viewState, stageVars, playerVars>>

interfaceVars == <<identityVars, sessionVars, panelVars>>

vars == <<hookVars, interfaceVars>>

CallIds == 1..MaxCalls

\* ------------------------------------------------------------ data shapes
InitialGameState ==
  [isProcessing |-> FALSE, error |-> Null, completed |-> FALSE,
   step |-> "checking", txHash |-> Null, txStatus |-> Null]

\* currentGame: null in the store
NoGame ==
  [id |-> Null, round |-> 0, is_active |-> FALSE, max_rounds |-> 0, num_players |-> 0]

\* the Game object createGame writes into the store
NewGame(gameId, maxRounds) ==
  [id |-> gameId, round |-> 0, is_active |-> TRUE, max_rounds |-> maxRounds,
   num_players |-> 1]

Session == [currentGame |-> currentGame, gameStarted |-> gameStarted]

\* an id generated once and used by every attempt
Uuid_Shared(n) == "uuid-1"

\* uuidv4(): the n-th value handed out
Uuid(n) == "uuid-" \o ToString(n)

\* transaction hash the ledger client returns for an invocation
TxHashOf(c) == "0xtx" \o ToString(c)

\* an invocation that has not been made yet
IdleCall ==
  [pc |-> "idle", op |-> Null, gameId |-> Null, maxRounds |-> 0,
   transactionId |-> Null, txHash |-> Null, overlapped |-> FALSE]

\* an invocation that has returned: its locals are gone
DoneCall == [IdleCall EXCEPT !.pc = "done"]

NoReturn ==
  [call |-> 0, op |-> Null, success |-> FALSE, transactionHash |-> Null,
   error |-> Null, gameId |-> Null]

InFlight(c) == calls[c].pc \in {"awaitLedger", "awaitReceipt", "awaitTimer"}
InFlightCalls == {c \in CallIds : InFlight(c)}

\* ------------------------------------------- data shapes of GameInterface
\* a game / player identity: the three values the component resolves
NoIdentity == [gameId |-> Null, playerId |-> Null, playerName |-> Null]
IdentityA == [gameId |-> "g1", playerId |-> "p1", playerName |-> "Alice"]
IdentityB == [gameId |-> "g2", playerId |-> "p2", playerName |-> "Bob"]
PartialIdentity == [gameId |-> "g1", playerId |-> "p1", playerName |-> Null]

\* what the socket context can hold as gameId / playerId / playerName
LiveIdentities == {NoIdentity, PartialIdentity, IdentityA, IdentityB}

\* useSocket() before the provider has a socket or a game
NoContext ==
  [socket |-> FALSE, connected |-> FALSE, gameId |-> Null, playerId |-> Null,
   playerName |-> Null]

ContextWith(socket, connected, id) ==
  [socket |-> socket, connected |-> connected, gameId |-> id.gameId,
   playerId |-> id.playerId, playerName |-> id.playerName]

\* localStorage.getItem('currentGameInfo'): null, a string JSON.parse throws
\* on, or the JSON of an object
StoredInfo(kind, id) ==
  [kind |-> kind, gameId |-> id.gameId, playerId |-> id.playerId,
   playerName |-> id.playerName]
AbsentInfo == StoredInfo("absent", NoIdentity)
StoredInfos ==
  {AbsentInfo, StoredInfo("corrupt", NoIdentity)}
    \cup {StoredInfo("json", id) : id \in {PartialIdentity, IdentityA, IdentityB}}

\* gameState of the component: null
NoWinner == [name |-> Null, finalScore |-> 0]
NoSession == [status |-> Null, players |-> <<>>, winner |-> NoWinner]

SessionStatuses == {"waiting", "playing", "finished"}
PlayerLists == {<<"Alice", "Bob">>, <<"Alice", "Bob", "Carol">>}
Winners == {NoWinner, [name |-> "Alice", finalScore |-> 120],
            [name |-> "Bob", finalScore |-> 95]}

\* the game states the server sends: a winner comes with status finished
ServerStates ==
  {r \in [status : SessionStatuses, players : PlayerLists, winner : Winners] :
     r.winner # NoWinner => r.status = "finished"}

NoEvent == [kind |-> Null, state |-> NoSession, playerName |-> Null]

\* [gameState?.status, gameState?.winner?.name,
\*  gameState?.winner?.finalScore, gameFinished]
FinishedEffectDepsOf(state, finished) ==
  <<state.status, state.winner.name, state.winner.finalScore, finished>>

\* gameState as far as actionsByRound reads it: null
NoViewState ==
  [present |-> FALSE, actionHistory |-> {}, recentActions |-> <<>>,
   hasRecentActions |-> FALSE, currentRound |-> 0, hasCurrentRound |-> FALSE]

\* the accounts a wallet hands over, and userAddress, the padded lower-case
\* form of an account's address ('' without an account)
Accounts == {"0xA", "0xa", "0xb"}

Padded(address) ==
  CASE address = "0xA" -> "0x0a"
    [] address = "0xa" -> "0x0a"
    [] address = "0xb" -> "0x0b"

\* the store's player: null, or the record fetched for an address
NoPlayer == [address |-> Null]
PlayerOf(address) == [address |-> address]

\* usePlayer before its first effects ran, with no account and no player
\* persisted
PlayerIdle ==
  /\ playerAccount = Null
  /\ storePlayer = NoPlayer
  /\ playerIsLoading = TRUE
  /\ playerError = Null
  /\ playerFetches = <<>>
  /\ nFetches = 0
  /\ playerEffectDeps = <<"unmounted", "unmounted">>

\* the exit bookkeeping and the action form as constructed
FormInit ==
  /\ exitTimers = 0
  /\ clearGameInfoCalls = 0
  /\ onExitGameCalls = 0
  /\ currentPlayer = Null
  /\ selectedAction = "buy"
  /\ selectedResource = "gold"
  /\ amount = 1
  /\ targetPlayer = ""
  /\ submits = 0
  /\ viewState = NoViewState
  /\ interfaceStarted = FALSE
  /\ exitClicks = 0

PanelInit == FormInit /\ PlayerIdle

\* the component as constructed, before its first effects ran
InterfaceInit(context, stored) ==
  /\ PanelInit
  /\ socketContext = context
  /\ storedGameInfo = stored
  /\ effectiveGameId = Null
  /\ effectivePlayerId = Null
  /\ effectivePlayerName = Null
  /\ contextLoaded = FALSE
  /\ gameStateRequestedRef = FALSE
  /\ identityEffectDue = TRUE
  /\ requestEffectDue = TRUE
  /\ emitted = <<>>
  /\ storageRead = FALSE
  /\ requestedSinceConnect = FALSE
  /\ sessionState = NoSession
  /\ gameFinished = FALSE
  /\ showWinnerModal = FALSE
  /\ notifications = <<>>
  /\ notificationTimers = <<>>
  /\ finishedEffectDeps = FinishedEffectDepsOf(NoSession, FALSE)
  /\ nEvents = 0
  /\ lastEvent = NoEvent

\* ----------------------------------------------------------------- Init
Init ==
  /\ InterfaceInit(NoContext, AbsentInfo)
  /\ gameState = InitialGameState
  /\ isProcessing = FALSE
  /\ cbIsProcessing = FALSE
  /\ status \in Statuses
  /\ account \in BOOLEAN
  /\ player \in BOOLEAN
  /\ currentGame = NoGame
  /\ gameStarted = FALSE
  /\ isLoading = FALSE
  /\ calls = [c \in CallIds |-> IdleCall]
  /\ lastReturn = NoReturn
  /\ nCalls = 0
  /\ uuidCount = 0
  /\ ledgerLog = {}
  /\ confirmLog = {}
  /\ revertLog = {}

\* ------------------------------------------------- pieces of the callbacks
\* the `if (isProcessing)` guard: reads the value captured by the callback
BusyGuard == cbIsProcessing

\* ValidationError without the player check
ValidationError_NoPlayerCheck(op) ==
  IF op = "createGame"
  THEN IF status # "connected"
       THEN "Controller not connected. Please connect your controller first."
       ELSE IF ~account
       THEN "No account found. Please connect your controller."
       ELSE Null
  ELSE IF status # "connected" \/ ~account
       THEN IF op = "joinGame" THEN "Invalid state for joining game"
                               ELSE "Invalid state for starting game"
       ELSE Null

\* the validation block after setIsProcessing(true); Null when it passes
ValidationError(op) ==
  IF op = "createGame"
  THEN IF status # "connected"
       THEN "Controller not connected. Please connect your controller first."
       ELSE IF ~account
       THEN "No account found. Please connect your controller."
       ELSE IF ~player
       THEN "Player not found. Please initialize your player first."
       ELSE Null
  ELSE IF status # "connected" \/ ~account \/ ~player
       THEN IF op = "joinGame" THEN "Invalid state for joining game"
                               ELSE "Invalid state for starting game"
       ELSE Null

\* a failed validation that also marks the transaction rejected
ValidationFailedState_Rejected(gs, error) ==
  [gs EXCEPT !.error = error, !.txStatus = "REJECTED"]

\* setGameState(prev => ({ ...prev, error })) of a failed validation
ValidationFailedState(gs, error) == [gs EXCEPT !.error = error]

StepOf(op) ==
  CASE op = "createGame" -> "creating"
    [] op = "joinGame"   -> "joining"
    [] op = "startGame"  -> "starting"

\* setGameState at the top of the try block
AttemptStartedState(gs, op) ==
  [gs EXCEPT !.isProcessing = TRUE, !.error = Null, !.step = StepOf(op)]

\* `if (tx?.transaction_hash) setGameState(txHash, txStatus: 'PENDING')`
HashSeenState(gs, hash) ==
  IF hash # Null THEN [gs EXCEPT !.txHash = hash, !.txStatus = "PENDING"] ELSE gs

\* joinGame / startGame after code === "SUCCESS"
LedgerAcceptedState(gs) == [gs EXCEPT !.txStatus = "SUCCESS", !.step = "loading"]

\* joinGame / startGame after the 3500 ms timer
CompletedState(gs) ==
  [gs EXCEPT !.completed = TRUE, !.isProcessing = FALSE, !.step = "success"]

\* the else branch: setGameState(txStatus: 'REJECTED') before the throw
CodeRejectedState(gs) == [gs EXCEPT !.txStatus = "REJECTED"]

\* a catch block that forgets the status
RejectedState_NoStatus(gs, errorMessage) ==
  [gs EXCEPT !.error = errorMessage, !.isProcessing = FALSE, !.step = "checking"]

\* setGameState of the catch block
RejectedState(gs, errorMessage) ==
  [gs EXCEPT !.error = errorMessage, !.isProcessing = FALSE,
             !.step = "checking", !.txStatus = "REJECTED"]

\* new Error("... transaction failed with code: " + tx?.code)
FailedCodeMessage(op, code) ==
  (CASE op = "createGame" -> "Create game transaction failed with code: "
     [] op = "joinGame"   -> "Join game transaction failed with code: "
     [] op = "startGame"  -> "Start game transaction failed with code: ") \o code

\* the catch block's message for a thrown value that is not an Error
DefaultErrorMessage(op) ==
  CASE op = "createGame" -> "Failed to create game. Please try again."
    [] op = "joinGame"   -> "Failed to join game. Please try again."
    [] op = "startGame"  -> "Failed to start game. Please try again."

\* error instanceof Error ? error.message : default
CatchMessage(op, thrown) ==
  IF thrown.isError THEN thrown.message ELSE DefaultErrorMessage(op)

\* what the ledger client's promise can settle to
LedgerOutcomes ==
  {[kind |-> "throw", isError |-> TRUE, message |-> "ledger call failed"],
   [kind |-> "throw", isError |-> FALSE, message |-> Null],
   [kind |-> "undefined"]}
  \cup {[kind |-> "response", code |-> code, hasHash |-> h] :
          code \in Codes, h \in BOOLEAN}

\* what account.waitForTransaction can settle to; value is receipt.value
ReceiptOutcomes ==
  {[kind |-> "throw", isError |-> TRUE, message |-> "receipt wait failed"],
   [kind |-> "throw", isError |-> FALSE, message |-> Null]}
  \cup {[kind |-> "receipt", value |-> v] : v \in GameIds \cup {Null}}

\* ------------------------------------------------------ ends of a callback
\* dojoState.confirmTransaction(transactionId); setIsProcessing(false);
\* return { success: true, transactionHash, gameId }
ReturnSuccess(c, rec, gs, gameId) ==
  /\ gameState' = gs
  /\ confirmLog' = confirmLog \cup {<<c, rec.transactionId>>}
  /\ isProcessing' = FALSE
  /\ calls' = [calls EXCEPT ![c] = DoneCall]
  /\ lastReturn' = [call |-> c, op |-> rec.op, success |-> TRUE,
                    transactionHash |-> rec.txHash, error |-> Null,
                    gameId |-> gameId]
  /\ UNCHANGED revertLog

\* the catch block
CatchBlock(c, rec, gs, thrown) ==
  LET errorMessage == CatchMessage(rec.op, thrown) IN
  /\ revertLog' = revertLog \cup {<<c, rec.transactionId>>}
  /\ gameState' = RejectedState(gs, errorMessage)
  /\ isProcessing' = FALSE
  /\ calls' = [calls EXCEPT ![c] = DoneCall]
  /\ lastReturn' = [call |-> c, op |-> rec.op, success |-> FALSE,
                    transactionHash |-> Null, error |-> errorMessage,
                    gameId |-> Null]
  /\ UNCHANGED confirmLog

\* return { success: false, error } before the try block
ReturnRefused(c, op, error) ==
  /\ calls' = [calls EXCEPT ![c] = DoneCall]
  /\ lastReturn' = [call |-> c, op |-> op, success |-> FALSE,
                    transactionHash |-> Null, error |-> error, gameId |-> Null]

\* ---------------------------------------------------------------- actions
\* createGame / joinGame / startGame up to the first await
Call(c, op, gameId, maxRounds) ==
  /\ c = nCalls + 1
  /\ c <= MaxCalls
  /\ nCalls' = c
  /\ LET rec == [calls[c] EXCEPT !.op = op, !.gameId = gameId,
                                 !.maxRounds = maxRounds]
         error == ValidationError(op)
     IN
     IF BusyGuard
     THEN /\ ReturnRefused(c, op, AlreadyProcessingError)
          /\ UNCHANGED <<gameState, isProcessing, uuidCount, ledgerLog>>
     ELSE IF error # Null
     THEN /\ gameState' = ValidationFailedState(gameState, error)
          /\ isProcessing' = FALSE
          /\ ReturnRefused(c, op, error)
          /\ UNCHANGED <<uuidCount, ledgerLog>>
     ELSE /\ isProcessing' = TRUE
          /\ uuidCount' = uuidCount + 1
          /\ gameState' = AttemptStartedState(gameState, op)
          /\ ledgerLog' = ledgerLog \cup {c}
          /\ calls' = [d \in CallIds |->
                         IF d = c
                         THEN [rec EXCEPT !.pc = "awaitLedger",
                                          !.transactionId = Uuid(uuidCount + 1),
                                          !.overlapped = (InFlightCalls # {})]
                         ELSE IF InFlight(d)
                         THEN [calls[d] EXCEPT !.overlapped = TRUE]
                         ELSE calls[d]]
          /\ UNCHANGED lastReturn
  /\ UNCHANGED <<cbIsProcessing, status, account, player, currentGame,
                 gameStarted, isLoading, confirmLog, revertLog>>
  /\ UNCHANGED interfaceVars

\* the promise of client.actions.* settles and the callback runs on to its
\* next await or to its return
LedgerResolve(c, out) ==
  /\ calls[c].pc = "awaitLedger"
  /\ LET op == calls[c].op
         hash == IF out.kind = "response" /\ out.hasHash THEN TxHashOf(c) ELSE Null
         rec == [calls[c] EXCEPT !.txHash = hash]
         account_ == TRUE  \* the captured account: validated before the try
         gs1 == HashSeenState(gameState, hash)
     IN
     IF out.kind = "throw"
     THEN CatchBlock(c, calls[c], gameState, out)
     ELSE IF out.kind = "response" /\ out.code = "SUCCESS"
     THEN IF op = "createGame"
          THEN IF hash # Null /\ account_
               THEN /\ gameState' = gs1
                    /\ calls' = [calls EXCEPT ![c] =
                                   [rec EXCEPT !.pc = "awaitReceipt"]]
                    /\ UNCHANGED <<isProcessing, lastReturn, confirmLog,
                                   revertLog>>
               ELSE ReturnSuccess(c, rec, gs1, Null)
          ELSE /\ gameState' = LedgerAcceptedState(gs1)
               /\ calls' = [calls EXCEPT ![c] = [rec EXCEPT !.pc = "awaitTimer"]]
               /\ UNCHANGED <<isProcessing, lastReturn, confirmLog, revertLog>>
     ELSE CatchBlock(c, rec, CodeRejectedState(gs1),
                     [isError |-> TRUE,
                      message |-> FailedCodeMessage(op,
                                    IF out.kind = "response" THEN out.code
                                                             ELSE "undefined")])
  /\ UNCHANGED <<cbIsProcessing, status, account, player, currentGame,
                 gameStarted, isLoading, nCalls, uuidCount, ledgerLog>>
  /\ UNCHANGED interfaceVars

\* account.waitForTransaction settles (createGame only)
ReceiptResolve(c, out) ==
  /\ calls[c].pc = "awaitReceipt"
  /\ IF out.kind = "throw"
     THEN /\ CatchBlock(c, calls[c], gameState, out)
          /\ UNCHANGED currentGame
     ELSE /\ currentGame' = IF out.value # Null
                            THEN NewGame(out.value, calls[c].maxRounds)
                            ELSE currentGame
          /\ ReturnSuccess(c, calls[c], gameState, Null)
  /\ UNCHANGED <<cbIsProcessing, status, account, player, gameStarted,
                 isLoading, nCalls, uuidCount, ledgerLog>>
  /\ UNCHANGED interfaceVars

\* the 3500 ms timer fires (joinGame / startGame)
TimerFire(c) ==
  /\ calls[c].pc = "awaitTimer"
  /\ gameStarted' = IF calls[c].op = "startGame" THEN TRUE ELSE gameStarted
  /\ ReturnSuccess(c, calls[c], CompletedState(gameState), calls[c].gameId)
  /\ UNCHANGED <<cbIsProcessing, status, account, player, currentGame,
                 isLoading, nCalls, uuidCount, ledgerLog>>
  /\ UNCHANGED interfaceVars

\* a resetGameState that forgets to clear the transaction hash
ResetGameState_KeepsHash ==
  /\ isProcessing' = FALSE
  /\ gameState' = [InitialGameState EXCEPT !.txHash = gameState.txHash]
  /\ UNCHANGED <<cbIsProcessing, status, account, player, currentGame,
                 gameStarted, isLoading, calls, lastReturn, nCalls, uuidCount,
                 ledgerLog, confirmLog, revertLog>>
  /\ UNCHANGED interfaceVars

\* resetGameState()
ResetGameState ==
  /\ isProcessing' = FALSE
  /\ gameState' = InitialGameState
  /\ UNCHANGED <<cbIsProcessing, status, account, player, currentGame,
                 gameStarted, isLoading, calls, lastReturn, nCalls, uuidCount,
                 ledgerLog, confirmLog, revertLog>>
  /\ UNCHANGED interfaceVars

\* React re-renders the component: the callbacks are re-created over the
\* current isProcessing, and the loading-sync effect copies
\* gameState.isProcessing into the store
Render ==
  /\ cbIsProcessing # isProcessing \/ isLoading # gameState.isProcessing
  /\ cbIsProcessing' = isProcessing
  /\ isLoading' = gameState.isProcessing
  /\ UNCHANGED <<gameState, isProcessing, status, account, player, currentGame,
                 gameStarted, calls, lastReturn, nCalls, uuidCount, ledgerLog,
                 confirmLog, revertLog>>
  /\ UNCHANGED interfaceVars

\* one of the connection / account / player hooks delivers a new value, which
\* re-renders the component
HooksChange(s, a, p) ==
  /\ Cardinality({i \in 1..3 : <<s, a, p>>[i] # <<status, account, player>>[i]}) = 1
  /\ status' = s
  /\ account' = a
  /\ player' = p
  /\ cbIsProcessing' = isProcessing
  /\ isLoading' = gameState.isProcessing
  /\ UNCHANGED <<gameState, isProcessing, currentGame, gameStarted, calls,
                 lastReturn, nCalls, uuidCount, ledgerLog, confirmLog,
                 revertLog>>
  /\ UNCHANGED interfaceVars

Next ==
  \/ \E c \in CallIds, maxRounds \in MaxRoundsValues :
       Call(c, "createGame", Null, maxRounds)
  \/ \E c \in CallIds, gameId \in GameIds : Call(c, "joinGame", gameId, 0)
  \/ \E c \in CallIds, gameId \in GameIds : Call(c, "startGame", gameId, 0)
  \/ \E c \in CallIds, out \in LedgerOutcomes : LedgerResolve(c, out)
  \/ \E c \in CallIds, out \in ReceiptOutcomes : ReceiptResolve(c, out)
  \/ \E c \in CallIds : TimerFire(c)
  \/ ResetGameState
  \/ Render
  \/ \E s \in Statuses, a \in BOOLEAN, p \in BOOLEAN : HooksChange(s, a, p)

Spec == Init /\ [][Next]_vars

\* ---------------------------------------- GameInterface: identity, request
\* the useGame hook as constructed, with nothing connected
HookIdle ==
  /\ gameState = InitialGameState
  /\ isProcessing = FALSE
  /\ cbIsProcessing = FALSE
  /\ status = "disconnected"
  /\ account = FALSE
  /\ player = FALSE
  /\ currentGame = NoGame
  /\ gameStarted = FALSE
  /\ isLoading = FALSE
  /\ calls = [c \in CallIds |-> IdleCall]
  /\ lastReturn = NoReturn
  /\ nCalls = 0
  /\ uuidCount = 0
  /\ ledgerLog = {}
  /\ confirmLog = {}
  /\ revertLog = {}

\* JavaScript truthiness of a string | null
Truthy(v) == v \notin {Null, ""}

\* gameId && playerId && playerName
Complete(id) ==
  Truthy(id.gameId) /\ Truthy(id.playerId) /\ Truthy(id.playerName)

IdentityOf(r) ==
  [gameId |-> r.gameId, playerId |-> r.playerId, playerName |-> r.playerName]

EffectiveIdentity ==
  [gameId |-> effectiveGameId, playerId |-> effectivePlayerId,
   playerName |-> effectivePlayerName]

\* the stored item parses to an object with all three values
StoredUsable(stored) == stored.kind = "json" /\ Complete(stored)

\* the identity effect reaches localStorage.getItem only past the early
\* return of the context branch
ReadsStorage(context) == ~Complete(context)

\* an identity effect that takes a stored game id without the player values
ResolvedIdentity_PartialStored(context, stored, current) ==
  IF Complete(context) THEN IdentityOf(context)
  ELSE IF stored.kind = "json" /\ Truthy(stored.gameId) THEN IdentityOf(stored)
  ELSE current

\* the values the identity effect leaves in effectiveGameId / PlayerId /
\* PlayerName
ResolvedIdentity(context, stored, current) ==
  IF Complete(context) THEN IdentityOf(context)
  ELSE IF StoredUsable(stored) THEN IdentityOf(stored)
  ELSE current

\* an effect that marks the context loaded only when a source gave an
\* identity
IdentityEffect_LoadsOnlyIfFound ==
  /\ identityEffectDue
  /\ LET resolved == ResolvedIdentity(socketContext, storedGameInfo,
                                      EffectiveIdentity)
     IN /\ effectiveGameId' = resolved.gameId
        /\ effectivePlayerId' = resolved.playerId
        /\ effectivePlayerName' = resolved.playerName
        /\ requestEffectDue' =
             (requestEffectDue \/ ~contextLoaded
                \/ resolved.gameId # effectiveGameId)
  /\ contextLoaded' =
       (contextLoaded \/ Complete(socketContext)
          \/ (ReadsStorage(socketContext) /\ StoredUsable(storedGameInfo)))
  /\ storageRead' = ReadsStorage(socketContext)
  /\ identityEffectDue' = FALSE
  /\ UNCHANGED <<socketContext, storedGameInfo, gameStateRequestedRef,
                 emitted, requestedSinceConnect>>
  /\ UNCHANGED <<hookVars, sessionVars, panelVars>>

\* useEffect(..., [gameId, playerId, playerName])
IdentityEffect ==
  /\ identityEffectDue
  /\ LET resolved == ResolvedIdentity(socketContext, storedGameInfo,
                                      EffectiveIdentity)
     IN /\ effectiveGameId' = resolved.gameId
        /\ effectivePlayerId' = resolved.playerId
        /\ effectivePlayerName' = resolved.playerName
        /\ requestEffectDue' =
             (requestEffectDue \/ ~contextLoaded
                \/ resolved.gameId # effectiveGameId)
  /\ contextLoaded' = TRUE
  /\ storageRead' = ReadsStorage(socketContext)
  /\ identityEffectDue' = FALSE
  /\ UNCHANGED <<socketContext, storedGameInfo, gameStateRequestedRef,
                 emitted, requestedSinceConnect>>
  /\ UNCHANGED <<hookVars, sessionVars, panelVars>>

\* socket && contextLoaded && effectiveGameId && connected
RequestPossible ==
  /\ socketContext.socket
  /\ contextLoaded
  /\ Truthy(effectiveGameId)
  /\ socketContext.connected

\* a request effect without the once-only guard
SkipRequest_NoRef == ~RequestPossible

\* the early return of the snapshot request effect
SkipRequest ==
  \/ ~socketContext.socket
  \/ ~contextLoaded
  \/ ~Truthy(effectiveGameId)
  \/ ~socketContext.connected
  \/ gameStateRequestedRef

GetGameState(by) ==
  [event |-> "get-game-state", gameId |-> effectiveGameId, by |-> by]

\* useEffect(..., [socket, contextLoaded, effectiveGameId, connected])
RequestEffect ==
  /\ requestEffectDue
  /\ requestEffectDue' = FALSE
  /\ IF SkipRequest
     THEN UNCHANGED <<emitted, gameStateRequestedRef, requestedSinceConnect>>
     ELSE /\ emitted' = Append(emitted, GetGameState("effect"))
          /\ gameStateRequestedRef' = TRUE
          /\ requestedSinceConnect' = TRUE
  /\ UNCHANGED <<socketContext, storedGameInfo, effectiveGameId,
                 effectivePlayerId, effectivePlayerName, contextLoaded,
                 identityEffectDue, storageRead>>
  /\ UNCHANGED <<hookVars, sessionVars, panelVars>>

\* the Retry button of the loading view is shown
RetryShown ==
  /\ contextLoaded
  /\ socketContext.connected
  /\ sessionState = NoSession
  /\ Truthy(effectiveGameId)

\* onClick of the Retry button
Retry ==
  /\ RetryShown
  /\ socketContext.socket
  /\ Len(emitted) < MaxEmits
  /\ emitted' = Append(emitted, GetGameState("retry"))
  /\ UNCHANGED <<socketContext, storedGameInfo, effectiveGameId,
                 effectivePlayerId, effectivePlayerName, contextLoaded,
                 gameStateRequestedRef, identityEffectDue, requestEffectDue,
                 storageRead, requestedSinceConnect>>
  /\ UNCHANGED <<hookVars, sessionVars, panelVars>>

\* the socket context delivers new gameId / playerId / playerName
IdentityChange(id) ==
  /\ id # IdentityOf(socketContext)
  /\ socketContext' =
       ContextWith(socketContext.socket, socketContext.connected, id)
  /\ identityEffectDue' = TRUE
  /\ UNCHANGED <<storedGameInfo, effectiveGameId, effectivePlayerId,
                 effectivePlayerName, contextLoaded, gameStateRequestedRef,
                 requestEffectDue, emitted, storageRead,
                 requestedSinceConnect>>
  /\ UNCHANGED <<hookVars, sessionVars, panelVars>>

\* the socket context delivers a socket, or drops it
SocketChange ==
  /\ socketContext' = [socketContext EXCEPT !.socket = ~socketContext.socket]
  /\ requestEffectDue' = TRUE
  /\ UNCHANGED <<storedGameInfo, effectiveGameId, effectivePlayerId,
                 effectivePlayerName, contextLoaded, gameStateRequestedRef,
                 identityEffectDue, emitted, storageRead,
                 requestedSinceConnect>>
  /\ UNCHANGED <<hookVars, sessionVars, panelVars>>

\* the socket context reports a connect or a disconnect
ConnectedChange ==
  /\ socketContext' =
       [socketContext EXCEPT !.connected = ~socketContext.connected]
  /\ requestEffectDue' = TRUE
  /\ requestedSinceConnect' =
       IF socketContext.connected THEN requestedSinceConnect ELSE FALSE
  /\ UNCHANGED <<storedGameInfo, effectiveGameId, effectivePlayerId,
                 effectivePlayerName, contextLoaded, gameStateRequestedRef,
                 identityEffectDue, emitted, storageRead>>
  /\ UNCHANGED <<hookVars, sessionVars, panelVars>>

IdentityInit ==
  /\ HookIdle
  /\ \E socket \in BOOLEAN, connected \in BOOLEAN, id \in LiveIdentities,
        stored \in StoredInfos :
       InterfaceInit(ContextWith(socket, connected, id), stored)

IdentityNext ==
  \/ IdentityEffect
  \/ RequestEffect
  \/ Retry
  \/ \E id \in LiveIdentities : IdentityChange(id)
  \/ SocketChange
  \/ ConnectedChange

SpecIdentity == IdentityInit /\ [][IdentityNext]_vars

\* ------------------------------------ GameInterface: events, notifications
Event(kind, state, playerName) ==
  [kind |-> kind, state |-> state, playerName |-> playerName]

\* a 'game-state' handler that keeps the player list it already has
OnGameState_KeepPlayers(previous, state) ==
  IF state # NoSession
  THEN IF previous # NoSession
       THEN [state EXCEPT !.players = previous.players]
       ELSE state
  ELSE previous

\* socket.on('game-state'): if (state) setGameState(state)
OnGameState(previous, state) ==
  IF state # NoSession THEN state ELSE previous

\* the handler of an event was entered: it is counted and remembered
Delivered(event) ==
  /\ nEvents < MaxEvents
  /\ nEvents' = nEvents + 1
  /\ lastEvent' = event

\* socket.on('game-state', state => ...)
GameStateEvent(state) ==
  /\ Delivered(Event("game-state", state, Null))
  /\ sessionState' = OnGameState(sessionState, state)
  /\ UNCHANGED <<gameFinished, showWinnerModal, notifications,
                 notificationTimers, finishedEffectDeps>>
  /\ UNCHANGED <<hookVars, identityVars, panelVars>>

\* socket.on('game-started', () => playSound('switch'))
GameStartedEvent ==
  /\ Delivered(Event("game-started", NoSession, Null))
  /\ UNCHANGED <<sessionState, gameFinished, showWinnerModal, notifications,
                 notificationTimers, finishedEffectDeps>>
  /\ UNCHANGED <<hookVars, identityVars, panelVars>>

\* socket.on('game-finished', finalState => setGameState(finalState))
GameFinishedEvent(finalState) ==
  /\ Delivered(Event("game-finished", finalState, Null))
  /\ sessionState' = finalState
  /\ UNCHANGED <<gameFinished, showWinnerModal, notifications,
                 notificationTimers, finishedEffectDeps>>
  /\ UNCHANGED <<hookVars, identityVars, panelVars>>

\* a 'player-joined' handler that appends the player to the list it has
PlayerJoinedEvent_AddsPlayer(playerName) ==
  /\ Delivered(Event("player-joined", NoSession, playerName))
  /\ sessionState' =
       IF sessionState # NoSession
       THEN [sessionState EXCEPT !.players = Append(@, playerName)]
       ELSE sessionState
  /\ UNCHANGED <<gameFinished, showWinnerModal, notifications,
                 notificationTimers, finishedEffectDeps>>
  /\ UNCHANGED <<hookVars, identityVars, panelVars>>

\* socket.on('player-joined', data => playSound('click'))
PlayerJoinedEvent(playerName) ==
  /\ Delivered(Event("player-joined", NoSession, playerName))
  /\ UNCHANGED <<sessionState, gameFinished, showWinnerModal, notifications,
                 notificationTimers, finishedEffectDeps>>
  /\ UNCHANGED <<hookVars, identityVars, panelVars>>

\* socket.on('player-disconnected', data => console.log(...))
PlayerDisconnectedEvent(playerName) ==
  /\ Delivered(Event("player-disconnected", NoSession, playerName))
  /\ UNCHANGED <<sessionState, gameFinished, showWinnerModal, notifications,
                 notificationTimers, finishedEffectDeps>>
  /\ UNCHANGED <<hookVars, identityVars, panelVars>>

\* socket.on('error', error => console.error(...))
ErrorEvent ==
  /\ Delivered(Event("error", NoSession, Null))
  /\ UNCHANGED <<sessionState, gameFinished, showWinnerModal, notifications,
                 notificationTimers, finishedEffectDeps>>
  /\ UNCHANGED <<hookVars, identityVars, panelVars>>

\* the notification texts (their leading emoji left out)
FinishedMessage == "Game finished!"
RematchMessage == "Ready for rematch!"
WinnerMessage(winner) ==
  "Winner: " \o winner.name \o " (" \o ToString(winner.finalScore)
    \o " points)!"

\* an insertion that makes room by dropping the newest held entry
Pushed_DropsNewest(list, message) ==
  <<message>> \o (IF Len(list) < 5 THEN list ELSE Tail(list))

\* setNotifications(prev => [message, ...prev.slice(0, 4)])
Pushed(list, message) ==
  <<message>> \o SubSeq(list, 1, IF Len(list) < 4 THEN Len(list) ELSE 4)

\* prev.filter(n => n !== message)
Without(list, message) == SelectSeq(list, LAMBDA n : n # message)

\* an effect that announces every finished state it sees, whatever
\* gameFinished says
FinishedEffectMessages_NoLatch(state, finished) ==
  (IF state.status = "finished"
   THEN <<FinishedMessage>> \o
        (IF state.winner # NoWinner THEN <<WinnerMessage(state.winner)>>
         ELSE <<>>)
   ELSE <<>>)
  \o (IF state.status = "waiting" /\ finished THEN <<RematchMessage>>
      ELSE <<>>)

\* the addNotification calls of one run of the finished / rematch effect, in
\* call order
FinishedEffectMessages(state, finished) ==
  IF state = NoSession THEN <<>>
  ELSE (IF state.status = "finished" /\ ~finished
        THEN <<FinishedMessage>> \o
             (IF state.winner # NoWinner THEN <<WinnerMessage(state.winner)>>
              ELSE <<>>)
        ELSE <<>>)
       \o (IF state.status = "waiting" /\ finished THEN <<RematchMessage>>
           ELSE <<>>)

RECURSIVE PushedAll(_, _)
PushedAll(list, messages) ==
  IF messages = <<>> THEN list
  ELSE PushedAll(Pushed(list, Head(messages)), Tail(messages))

\* a rematch branch that leaves the terminal flag set
FinishedAfterEffect_NoRearm(state, finished) ==
  IF state = NoSession THEN finished
  ELSE IF state.status = "finished" /\ ~finished THEN TRUE
  ELSE finished

\* gameFinished after one run of the effect
FinishedAfterEffect(state, finished) ==
  IF state = NoSession THEN finished
  ELSE IF state.status = "finished" /\ ~finished THEN TRUE
  ELSE IF state.status = "waiting" /\ finished THEN FALSE
  ELSE finished

\* showWinnerModal after one run of the effect
ModalAfterEffect(state, finished, modal) ==
  IF state = NoSession THEN modal
  ELSE IF state.status = "finished" /\ ~finished THEN TRUE
  ELSE IF state.status = "waiting" /\ finished THEN FALSE
  ELSE modal

\* useEffect(..., [gameState?.status, gameState?.winner?.name,
\*                 gameState?.winner?.finalScore, gameFinished]): runs after
\* the render that sees changed dependencies
FinishedEffect ==
  /\ finishedEffectDeps # FinishedEffectDepsOf(sessionState, gameFinished)
  /\ finishedEffectDeps' = FinishedEffectDepsOf(sessionState, gameFinished)
  /\ LET messages == FinishedEffectMessages(sessionState, gameFinished)
     IN /\ notifications' = PushedAll(notifications, messages)
        /\ notificationTimers' = notificationTimers \o messages
  /\ gameFinished' = FinishedAfterEffect(sessionState, gameFinished)
  /\ showWinnerModal' =
       ModalAfterEffect(sessionState, gameFinished, showWinnerModal)
  /\ UNCHANGED <<sessionState, nEvents, lastEvent>>
  /\ UNCHANGED <<hookVars, identityVars, panelVars>>

\* the 5000 ms timeout of the oldest pending addNotification fires
NotificationExpire ==
  /\ notificationTimers # <<>>
  /\ notifications' = Without(notifications, Head(notificationTimers))
  /\ notificationTimers' = Tail(notificationTimers)
  /\ UNCHANGED <<sessionState, gameFinished, showWinnerModal,
                 finishedEffectDeps, nEvents, lastEvent>>
  /\ UNCHANGED <<hookVars, identityVars, panelVars>>

CloseReasons == {"Host left the game"}

ClosedMessage(reason) == "Game closed: " \o reason

\* a 'game-closed' handler that leaves at once, without a word
GameClosedEvent_ExitsAtOnce(reason) ==
  /\ Delivered(Event("game-closed", NoSession, reason))
  /\ clearGameInfoCalls' = clearGameInfoCalls + 1
  /\ onExitGameCalls' = onExitGameCalls + 1
  /\ UNCHANGED <<sessionState, gameFinished, showWinnerModal, notifications,
                 notificationTimers, finishedEffectDeps, exitTimers,
                 inputVars, viewState, stageVars,
                 playerVars>>
  /\ UNCHANGED <<hookVars, identityVars>>

\* socket.on('game-closed', data => ...): addNotification with the reason,
\* then setTimeout(() => { clearGameInfo(); onExitGame(); }, 3000).  The
\* event's data.reason is kept in the third field of the event record.
GameClosedEvent(reason) ==
  /\ Delivered(Event("game-closed", NoSession, reason))
  /\ notifications' = Pushed(notifications, ClosedMessage(reason))
  /\ notificationTimers' = Append(notificationTimers, ClosedMessage(reason))
  /\ exitTimers' = exitTimers + 1
  /\ UNCHANGED <<sessionState, gameFinished, showWinnerModal,
                 finishedEffectDeps, clearGameInfoCalls, onExitGameCalls,
                 inputVars, viewState, stageVars,
                 playerVars>>
  /\ UNCHANGED <<hookVars, identityVars>>

\* a 3000 ms timeout of the 'game-closed' handler fires: clearGameInfo() of
\* the socket context and onExitGame() of the parent are called (neither is
\* part of the component; the calls are counted)
ExitTimerFire ==
  /\ exitTimers > 0
  /\ exitTimers' = exitTimers - 1
  /\ clearGameInfoCalls' = clearGameInfoCalls + 1
  /\ onExitGameCalls' = onExitGameCalls + 1
  /\ UNCHANGED <<inputVars, viewState, stageVars,
                 playerVars>>
  /\ UNCHANGED <<hookVars, identityVars, sessionVars>>

\* the component with its identity resolved from the context, the snapshot
\* requested, and no snapshot received yet
ComponentSynced ==
  /\ FormInit
  /\ socketContext = ContextWith(TRUE, TRUE, IdentityA)
  /\ storedGameInfo = AbsentInfo
  /\ effectiveGameId = IdentityA.gameId
  /\ effectivePlayerId = IdentityA.playerId
  /\ effectivePlayerName = IdentityA.playerName
  /\ contextLoaded = TRUE
  /\ gameStateRequestedRef = TRUE
  /\ identityEffectDue = FALSE
  /\ requestEffectDue = FALSE
  /\ emitted = <<[event |-> "get-game-state", gameId |-> IdentityA.gameId,
                  by |-> "effect"]>>
  /\ storageRead = FALSE
  /\ requestedSinceConnect = TRUE
  /\ sessionState = NoSession
  /\ gameFinished = FALSE
  /\ showWinnerModal = FALSE
  /\ notifications = <<>>
  /\ notificationTimers = <<>>
  /\ finishedEffectDeps = FinishedEffectDepsOf(NoSession, FALSE)
  /\ nEvents = 0
  /\ lastEvent = NoEvent

InterfaceSynced == ComponentSynced /\ PlayerIdle

SessionInit == HookIdle /\ InterfaceSynced

FinalStates == {r \in ServerStates : r.status = "finished"} \cup {NoSession}

SessionNext ==
  \/ \E state \in ServerStates \cup {NoSession} : GameStateEvent(state)
  \/ GameStartedEvent
  \/ \E finalState \in FinalStates : GameFinishedEvent(finalState)
  \/ PlayerJoinedEvent("Carol")
  \/ PlayerDisconnectedEvent("Bob")
  \/ ErrorEvent
  \/ \E reason \in CloseReasons : GameClosedEvent(reason)
  \/ ExitTimerFire
  \/ FinishedEffect
  \/ NotificationExpire

SpecSession == SessionInit /\ [][SessionNext]_vars

\* a timeout that was set and is never cleared runs: the cleanup of the
\* listener effect only detaches the listeners
SpecSessionFair == SpecSession /\ WF_vars(ExitTimerFire)

\* ------------------------- useGame and GameInterface in one application
\* the useGame hook as constructed, connected, with account and player
HookReady ==
  /\ gameState = InitialGameState
  /\ isProcessing = FALSE
  /\ cbIsProcessing = FALSE
  /\ status = "connected"
  /\ account = TRUE
  /\ player = TRUE
  /\ currentGame = NoGame
  /\ gameStarted = FALSE
  /\ isLoading = FALSE
  /\ calls = [c \in CallIds |-> IdleCall]
  /\ lastReturn = NoReturn
  /\ nCalls = 0
  /\ uuidCount = 0
  /\ ledgerLog = {}
  /\ confirmLog = {}
  /\ revertLog = {}

SharedInit == HookReady /\ InterfaceSynced

\* the snapshots of a game that is being set up
LobbyStates == {r \in ServerStates : r.status = "waiting"}

\* lifecycle transactions of useGame interleaved with the snapshots the
\* component receives
SharedNext ==
  \/ \E c \in CallIds, maxRounds \in MaxRoundsValues :
       Call(c, "createGame", Null, maxRounds)
  \/ \E c \in CallIds, gameId \in GameIds : Call(c, "startGame", gameId, 0)
  \/ \E c \in CallIds, out \in LedgerOutcomes : LedgerResolve(c, out)
  \/ \E c \in CallIds, out \in ReceiptOutcomes : ReceiptResolve(c, out)
  \/ \E c \in CallIds : TimerFire(c)
  \/ Render
  \/ \E state \in LobbyStates : GameStateEvent(state)

SpecShared == SharedInit /\ [][SharedNext]_vars

\* ------------------------------------------- GameInterface: action form
\* gameState.status === 'playing'
StartedOf(state) == state.status = "playing"

\* the player ids of the game states: players are modelled by their names
PlayerIdOf(name) ==
  CASE name = "Alice" -> "p1"
    [] name = "Bob" -> "p2"
    [] OTHER -> "p3"

\* gameState.players.find(p => p.id === effectivePlayerId) || null
FoundPlayer(state, id) ==
  IF \E i \in 1..Len(state.players) : PlayerIdOf(state.players[i]) = id
  THEN CHOOSE name \in {state.players[i] : i \in 1..Len(state.players)} :
         PlayerIdOf(name) = id
  ELSE Null

\* game states of a running game, one of them without the local player
PlayStates ==
  {[status |-> "playing", players |-> pl, winner |-> NoWinner] :
     pl \in PlayerLists \cup {<<"Bob", "Carol">>}}

ActionTypes == {"buy", "sell", "sabotage"}
Amounts == {0, 1, 3}
Targets == {"", "Bob"}

\* useEffect(..., [gameState, effectivePlayerId]): setCurrentPlayer
PlayerEffect ==
  /\ sessionState # NoSession
  /\ \/ currentPlayer # FoundPlayer(sessionState, effectivePlayerId)
     \/ interfaceStarted # StartedOf(sessionState)
  /\ currentPlayer' = FoundPlayer(sessionState, effectivePlayerId)
  /\ interfaceStarted' = StartedOf(sessionState)
  /\ UNCHANGED <<selectedAction, selectedResource, amount, targetPlayer,
                 submits, exitVars, viewState, exitClicks,
                 playerVars>>
  /\ UNCHANGED <<hookVars, identityVars, sessionVars>>

\* onActionChange={setSelectedAction}
SetSelectedAction(type) ==
  /\ type # selectedAction
  /\ selectedAction' = type
  /\ UNCHANGED <<currentPlayer, selectedResource, amount, targetPlayer,
                 submits, exitVars, viewState, stageVars,
                 playerVars>>
  /\ UNCHANGED <<hookVars, identityVars, sessionVars>>

\* onAmountChange={setAmount}
SetAmount(n) ==
  /\ n # amount
  /\ amount' = n
  /\ UNCHANGED <<currentPlayer, selectedAction, selectedResource,
                 targetPlayer, submits, exitVars, viewState, stageVars,
                 playerVars>>
  /\ UNCHANGED <<hookVars, identityVars, sessionVars>>

\* onTargetChange={setTargetPlayer}
SetTargetPlayer(name) ==
  /\ name # targetPlayer
  /\ targetPlayer' = name
  /\ UNCHANGED <<currentPlayer, selectedAction, selectedResource, amount,
                 submits, exitVars, viewState, stageVars,
                 playerVars>>
  /\ UNCHANGED <<hookVars, identityVars, sessionVars>>

\* an action payload that always carries the target field
ActionData_AlwaysTarget ==
  [event |-> "player-action", by |-> "handleAction",
   action |-> selectedAction, resource |-> selectedResource,
   amount |-> amount, targetPlayer |-> targetPlayer]

\* actionData, as emitted with 'player-action'
ActionData ==
  [event |-> "player-action", by |-> "handleAction",
   action |-> selectedAction, resource |-> selectedResource,
   amount |-> amount,
   targetPlayer |-> IF selectedAction = "sabotage" THEN targetPlayer
                    ELSE Null]

\* if (!currentPlayer || amount <= 0) return
SubmitRefused == currentPlayer = Null \/ amount <= 0

\* a handleAction that leaves the target field as it is
HandleAction_KeepsTarget ==
  /\ submits < MaxSubmits
  /\ submits' = submits + 1
  /\ IF SubmitRefused
     THEN UNCHANGED <<emitted, amount, targetPlayer>>
     ELSE /\ emitted' = IF socketContext.socket
                        THEN Append(emitted, ActionData) ELSE emitted
          /\ amount' = 1
          /\ UNCHANGED targetPlayer
  /\ UNCHANGED <<currentPlayer, selectedAction, selectedResource, exitVars,
                 viewState, stageVars,
                 playerVars>>
  /\ UNCHANGED <<socketContext, storedGameInfo, effectiveGameId,
                 effectivePlayerId, effectivePlayerName, contextLoaded,
                 gameStateRequestedRef, identityEffectDue, requestEffectDue,
                 storageRead, requestedSinceConnect>>
  /\ UNCHANGED <<hookVars, sessionVars>>

\* handleAction(): onConfirmAction of the action panel
HandleAction ==
  /\ submits < MaxSubmits
  /\ submits' = submits + 1
  /\ IF SubmitRefused
     THEN UNCHANGED <<emitted, amount, targetPlayer>>
     ELSE /\ emitted' = IF socketContext.socket
                        THEN Append(emitted, ActionData) ELSE emitted
          /\ amount' = 1
          /\ targetPlayer' = ""
  /\ UNCHANGED <<currentPlayer, selectedAction, selectedResource, exitVars,
                 viewState, stageVars,
                 playerVars>>
  /\ UNCHANGED <<socketContext, storedGameInfo, effectiveGameId,
                 effectivePlayerId, effectivePlayerName, contextLoaded,
                 gameStateRequestedRef, identityEffectDue, requestEffectDue,
                 storageRead, requestedSinceConnect>>
  /\ UNCHANGED <<hookVars, sessionVars>>

\* the component after it received the state of a running game, or none yet
ActionInit ==
  /\ HookIdle
  /\ \E state \in PlayStates \cup {NoSession} :
       /\ sessionState = state
       /\ lastEvent =
            IF state = NoSession THEN NoEvent
            ELSE Event("game-state", state, Null)
       /\ nEvents = IF state = NoSession THEN 0 ELSE 1
  /\ PanelInit
  /\ socketContext = ContextWith(TRUE, TRUE, IdentityA)
  /\ storedGameInfo = AbsentInfo
  /\ effectiveGameId = IdentityA.gameId
  /\ effectivePlayerId = IdentityA.playerId
  /\ effectivePlayerName = IdentityA.playerName
  /\ contextLoaded = TRUE
  /\ gameStateRequestedRef = TRUE
  /\ identityEffectDue = FALSE
  /\ requestEffectDue = FALSE
  /\ emitted = <<[event |-> "get-game-state", gameId |-> IdentityA.gameId,
                  by |-> "effect"]>>
  /\ storageRead = FALSE
  /\ requestedSinceConnect = TRUE
  /\ gameFinished = FALSE
  /\ showWinnerModal = FALSE
  /\ notifications = <<>>
  /\ notificationTimers = <<>>
  /\ finishedEffectDeps = FinishedEffectDepsOf(sessionState, FALSE)

ActionNext ==
  \/ PlayerEffect
  \/ \E type \in ActionTypes : SetSelectedAction(type)
  \/ \E n \in Amounts : SetAmount(n)
  \/ \E name \in Targets : SetTargetPlayer(name)
  \/ HandleAction
  \/ SocketChange
  \/ ErrorEvent

SpecAction == ActionInit /\ [][ActionNext]_vars

\* ------------------------------------- GameInterface: views, modal, exits
\* the view the component returns: the loading view, the waiting room, or
\* the game
ActiveView ==
  IF ~contextLoaded \/ ~socketContext.connected \/ sessionState = NoSession
  THEN "loading"
  ELSE IF ~interfaceStarted THEN "waiting"
  ELSE "game"

\* showWinnerModal && gameState?.status === 'finished' && gameState?.winner,
\* inside the game view
WinnerModalShown ==
  /\ ActiveView = "game"
  /\ showWinnerModal
  /\ sessionState.status = "finished"
  /\ sessionState.winner # NoWinner

\* the exit buttons: "Exit to Lobby" of the loading view, "Exit Game" of the
\* waiting room, "Exit" of the game header, "Exit Game" of the winner modal
ButtonShown(button) ==
  CASE button = "loading" -> ActiveView = "loading"
    [] button = "waiting" -> ActiveView = "waiting"
    [] button = "header" -> ActiveView = "game"
    [] button = "modal" -> WinnerModalShown

\* socket.emit('exit-game', { gameId, playerId })
ExitGameMessage ==
  [event |-> "exit-game", gameId |-> effectiveGameId,
   playerId |-> effectivePlayerId, by |-> "handleExitGame"]

\* socket && effectiveGameId && effectivePlayerId
ExitEmits ==
  /\ socketContext.socket
  /\ Truthy(effectiveGameId)
  /\ Truthy(effectivePlayerId)

\* handleExitGame()
HandleExitGame ==
  /\ emitted' = IF ExitEmits THEN Append(emitted, ExitGameMessage)
                ELSE emitted
  /\ clearGameInfoCalls' = clearGameInfoCalls + 1
  /\ onExitGameCalls' = onExitGameCalls + 1

\* onClick of an exit button: handleExitGame, but onExitGame itself for the
\* button of the game header
OnClickOf(button) ==
  IF button = "header"
  THEN /\ onExitGameCalls' = onExitGameCalls + 1
       /\ UNCHANGED <<emitted, clearGameInfoCalls>>
  ELSE HandleExitGame

\* the player clicks an exit button that is on screen
ExitClick(button) ==
  /\ ButtonShown(button)
  /\ exitClicks' = exitClicks + 1
  /\ OnClickOf(button)
  /\ UNCHANGED <<exitTimers, inputVars, viewState, interfaceStarted,
                 playerVars>>
  /\ UNCHANGED <<socketContext, storedGameInfo, effectiveGameId,
                 effectivePlayerId, effectivePlayerName, contextLoaded,
                 gameStateRequestedRef, identityEffectDue, requestEffectDue,
                 storageRead, requestedSinceConnect>>
  /\ UNCHANGED <<hookVars, sessionVars>>

\* "Continue" of the winner modal: setShowWinnerModal(false)
DismissModal ==
  /\ WinnerModalShown
  /\ showWinnerModal' = FALSE
  /\ UNCHANGED <<sessionState, gameFinished, notifications,
                 notificationTimers, finishedEffectDeps, nEvents, lastEvent>>
  /\ UNCHANGED <<hookVars, identityVars, panelVars>>

\* no effect of the component is waiting to run
EffectsSettled ==
  /\ finishedEffectDeps = FinishedEffectDepsOf(sessionState, gameFinished)
  /\ sessionState # NoSession =>
       /\ currentPlayer = FoundPlayer(sessionState, effectivePlayerId)
       /\ interfaceStarted = StartedOf(sessionState)

\* What the parent does in onExitGame() is not part of the component.  The
\* events, effects and clicks explored are those up to the first call of
\* it, which happen whether or not the parent unmounts the component then;
\* a timeout that is pending fires in either case.
Mounted == onExitGameCalls = 0

StageNext ==
  \/ Mounted /\ \E state \in ServerStates : GameStateEvent(state)
  \/ Mounted /\ \E reason \in CloseReasons : GameClosedEvent(reason)
  \/ ExitTimerFire
  \/ Mounted /\ PlayerEffect
  \/ Mounted /\ FinishedEffect
  \/ Mounted /\ DismissModal
  \/ Mounted /\ \E button \in {"loading", "waiting", "header", "modal"} :
                  ExitClick(button)

SpecStage == SessionInit /\ [][StageNext]_vars

\* ---------------------------------------------------------------- usePlayer
\* The hook is exercised on its own: the coordinator's account and player
\* are its reads of useAccount() and of this hook as of its last render,
\* and stay as they are here.
UserAddress ==
  IF playerAccount = Null THEN "" ELSE Padded(playerAccount)

\* refetch() up to its await: without an address it only ends the loading
Refetch ==
  IF UserAddress = ""
  THEN /\ playerIsLoading' = FALSE
       /\ UNCHANGED <<playerError, playerFetches, nFetches>>
  ELSE /\ playerIsLoading' = TRUE
       /\ playerError' = Null
       /\ playerFetches' = Append(playerFetches, UserAddress)
       /\ nFetches' = nFetches + 1

\* useAccount() hands over another account, or none
AccountChange(account_) ==
  /\ account_ # playerAccount
  /\ playerAccount' = account_
  /\ UNCHANGED <<storePlayer, playerIsLoading, playerError, playerFetches,
                 nFetches, playerEffectDeps>>
  /\ UNCHANGED <<exitVars, inputVars, viewState, stageVars>>
  /\ UNCHANGED <<hookVars, identityVars, sessionVars>>

\* the two effects of usePlayer after a render that changed their
\* dependencies: useEffect(..., [userAddress]) refetches if there is an
\* address, useEffect(..., [account, setPlayer]) clears the player if there
\* is no account
UsePlayerEffects ==
  /\ playerEffectDeps # <<UserAddress, playerAccount>>
  /\ playerEffectDeps' = <<UserAddress, playerAccount>>
  /\ IF playerEffectDeps[1] # UserAddress /\ UserAddress # ""
     THEN /\ nFetches < MaxFetches
          /\ Refetch
          /\ UNCHANGED storePlayer
     ELSE IF playerEffectDeps[2] # playerAccount /\ playerAccount = Null
     THEN /\ storePlayer' = NoPlayer
          /\ playerError' = Null
          /\ playerIsLoading' = FALSE
          /\ UNCHANGED <<playerFetches, nFetches>>
     ELSE UNCHANGED <<storePlayer, playerIsLoading, playerError,
                      playerFetches, nFetches>>
  /\ UNCHANGED playerAccount
  /\ UNCHANGED <<exitVars, inputVars, viewState, stageVars>>
  /\ UNCHANGED <<hookVars, identityVars, sessionVars>>

\* a caller of the hook calls refetch()
RefetchCall ==
  /\ UserAddress # "" => nFetches < MaxFetches
  /\ UserAddress = "" => playerIsLoading
  /\ Refetch
  /\ UNCHANGED <<playerAccount, storePlayer, playerEffectDeps>>
  /\ UNCHANGED <<exitVars, inputVars, viewState, stageVars>>
  /\ UNCHANGED <<hookVars, identityVars, sessionVars>>

\* the sequence without its i-th element
Removed(list, i) ==
  SubSeq(list, 1, i - 1) \o SubSeq(list, i + 1, Len(list))

\* setPlayer(playerData) / setPlayer(null) of refetch
Fetched(address, out) ==
  IF out = "found" THEN PlayerOf(address) ELSE NoPlayer

\* the awaited fetch i of refetch() completes, fetchPlayerData answering with
\* the player of the address ("found"), with no player ("none") or throwing
\* ("throw"): the rest of refetch() runs
FetchResolve(i, out) ==
  /\ i \in 1..Len(playerFetches)
  /\ storePlayer' = Fetched(playerFetches[i], out)
  /\ playerError' = IF out = "throw" THEN "fetch failed" ELSE playerError
  /\ playerIsLoading' = FALSE
  /\ playerFetches' = Removed(playerFetches, i)
  /\ UNCHANGED <<playerAccount, nFetches, playerEffectDeps>>
  /\ UNCHANGED <<exitVars, inputVars, viewState, stageVars>>
  /\ UNCHANGED <<hookVars, identityVars, sessionVars>>

\* usePlayer mounts with whatever account the wallet has and whatever player
\* the store persisted
PlayerInit ==
  /\ HookIdle
  /\ ComponentSynced
  /\ playerAccount \in Accounts \cup {Null}
  /\ storePlayer \in {NoPlayer} \cup {PlayerOf(Padded(a)) : a \in Accounts}
  /\ playerIsLoading = TRUE
  /\ playerError = Null
  /\ playerFetches = <<>>
  /\ nFetches = 0
  /\ playerEffectDeps = <<"unmounted", "unmounted">>

PlayerNext ==
  \/ \E account_ \in Accounts \cup {Null} : AccountChange(account_)
  \/ UsePlayerEffects
  \/ RefetchCall
  \/ \E i \in 1..MaxFetches, out \in {"found", "none", "throw"} :
       FetchResolve(i, out)

SpecPlayer == PlayerInit /\ [][PlayerNext]_vars

\* ------------------------------------------ GameInterface: actionsByRound
Rounds == 0..MaxRound
ActionLists == {<<"buy gold">>, <<"sell oil", "sabotage Bob">>}

\* a JavaScript object keyed by round number, as its set of <<key, value>>
\* entries
Histories ==
  {{<<r, f[r]>> : r \in D} : D \in SUBSET Rounds, f \in [Rounds -> ActionLists]}

\* the game states as far as actionsByRound reads them; recentActions and
\* currentRound may be undefined
ViewStates ==
  {NoViewState} \cup
  [present : {TRUE}, actionHistory : Histories,
   recentActions : {<<>>} \cup ActionLists, hasRecentActions : BOOLEAN,
   currentRound : Rounds, hasCurrentRound : BOOLEAN]

\* combined[key] = value on a copy of the object
Overlaid(object, key, value) ==
  {e \in object : e[1] # key} \cup {<<key, value>>}

\* the actionsByRound memo: recentActions && recentActions.length > 0 &&
\* currentRound are JavaScript truth tests
ActionsByRound(state) ==
  IF ~state.present THEN {}
  ELSE IF /\ state.hasRecentActions
          /\ Len(state.recentActions) > 0
          /\ state.hasCurrentRound /\ state.currentRound # 0
       THEN Overlaid(state.actionHistory, state.currentRound,
                     state.recentActions)
       ELSE state.actionHistory

actionsByRound == ActionsByRound(viewState)

\* the component renders with a new game state
ViewStateChange(state) ==
  /\ state # viewState
  /\ viewState' = state
  /\ UNCHANGED <<exitVars, inputVars, stageVars, playerVars>>
  /\ UNCHANGED <<hookVars, identityVars, sessionVars>>

ViewNext == \E state \in ViewStates : ViewStateChange(state)

SpecView == SessionInit /\ [][ViewNext]_vars

\* ------------------------------------------------------ steps of interest
\* invocation c returns in this step
Returns(c) == calls[c].pc # "done" /\ calls'[c].pc = "done"

\* invocation c is made in this step
Invoked(c) == calls[c].pc = "idle" /\ calls'[c].pc # "idle"

\* invocation c is made and returns before its first await
RefusedStep(c) == calls[c].pc = "idle" /\ calls'[c].pc = "done"

ValidationMessages ==
  {"Controller not connected. Please connect your controller first.",
   "No account found. Please connect your controller.",
   "Player not found. Please initialize your player first.",
   "Invalid state for joining game", "Invalid state for starting game"}

LoggedIds(log) == {e[2] : e \in log}

\* ------------------------------------------------------------------ claims

\* C1: every return of createGame / joinGame / startGame is either a success
\* with a non-empty transaction hash and a changed session, or a failure with
\* an error message and an unchanged session. An invocation writes the
\* session only in the step in which it returns, so the session is compared
\* across that step.
C1_ExactlyOneOutcome ==
  [][\A c \in CallIds : Returns(c) =>
       \/ /\ lastReturn'.success
          /\ lastReturn'.transactionHash # Null
          /\ Session' # Session
       \/ /\ ~lastReturn'.success
          /\ lastReturn'.error # Null
          /\ Session' = Session]_vars

\* C2: an invocation made while another one is in flight returns the
\* "Already processing a game action" failure and does not invoke the ledger.
C2_SecondCallRefused ==
  [][\A c \in CallIds : (Invoked(c) /\ InFlightCalls # {}) =>
       /\ calls'[c].pc = "done"
       /\ lastReturn'.call = c
       /\ ~lastReturn'.success
       /\ lastReturn'.error = AlreadyProcessingError
       /\ ledgerLog' = ledgerLog]_vars

\* C3: at most one invocation has a ledger operation in flight.
C3_AtMostOnePending == Cardinality(InFlightCalls) <= 1

\* C4: an invocation made while not connected, without an account or without
\* a player returns a failure with an error and does not invoke the ledger.
C4_UnmetPreconditionFails ==
  [][\A c \in CallIds :
       (Invoked(c) /\ (status # "connected" \/ ~account \/ ~player)) =>
         /\ calls'[c].pc = "done"
         /\ lastReturn'.call = c
         /\ ~lastReturn'.success
         /\ lastReturn'.error # Null
         /\ ledgerLog' = ledgerLog
         /\ c \notin ledgerLog]_vars

C4_Witness ==
  /\ lastReturn.call # 0
  /\ ~lastReturn.success
  /\ lastReturn.error \in ValidationMessages
  /\ ~player
  /\ lastReturn.call \notin ledgerLog

\* C5 (as stated): a refused invocation changes neither the exposed
\* coordinator state nor the session.
C5_RefusalMutatesNothing ==
  [][\A c \in CallIds : RefusedStep(c) =>
       gameState' = gameState /\ Session' = Session]_vars

\* C5 (amended): an invocation refused as already processing changes nothing;
\* one refused by the validation changes only the exposed error, which becomes
\* the returned message; the session is unchanged in both cases.
C5_RefusalSetsOnlyError ==
  [][\A c \in CallIds : RefusedStep(c) =>
       /\ Session' = Session
       /\ ledgerLog' = ledgerLog
       /\ IF lastReturn'.error = AlreadyProcessingError
          THEN gameState' = gameState
          ELSE /\ lastReturn'.error \in ValidationMessages
               /\ gameState'.error = lastReturn'.error
               /\ \A f \in {"isProcessing", "completed", "step", "txHash",
                            "txStatus"} : gameState'[f] = gameState[f]]_vars

C5_Witness ==
  /\ lastReturn.call # 0
  /\ lastReturn.error \in ValidationMessages
  /\ gameState.error = lastReturn.error
  /\ gameState.txStatus = "SUCCESS"
  /\ gameState.txHash # Null

\* C6: an attempt whose ledger step fails (result code other than SUCCESS, or
\* a throw) ends with txStatus REJECTED, the exposed error equal to the
\* returned message, both busy flags cleared and success = false.
C6_FailureRejects ==
  [][\A c \in CallIds : (InFlight(c) /\ Returns(c) /\ ~lastReturn'.success) =>
       /\ gameState'.txStatus = "REJECTED"
       /\ lastReturn'.error # Null
       /\ gameState'.error = lastReturn'.error
       /\ ~gameState'.isProcessing
       /\ ~isProcessing'
       /\ lastReturn'.call = c]_vars

\* a failed attempt followed by a new attempt that was accepted
C6_Witness ==
  /\ lastReturn.call = 1
  /\ ~lastReturn.success
  /\ lastReturn.error \notin ValidationMessages \cup {AlreadyProcessingError, Null}
  /\ InFlight(2)
  /\ ~calls[2].overlapped

\* C7: success with a transaction hash is returned only from the wait for
\* that hash's receipt.
C7_SuccessAfterReceipt ==
  [][\A c \in CallIds :
       (Returns(c) /\ lastReturn'.success /\ lastReturn'.transactionHash # Null)
         => calls[c].pc = "awaitReceipt"]_vars

\* C8: when an invocation returns success the exposed txStatus is SUCCESS.
C8_SuccessIsConfirmed ==
  [][\A c \in CallIds : (Returns(c) /\ lastReturn'.success) =>
       gameState'.txStatus = "SUCCESS"]_vars

\* C9: while an attempt that ran alone waits for the ledger, the exposed
\* state shows no SUCCESS / REJECTED status and no transaction hash (they
\* could only be those of an earlier attempt).
C9_NoStaleStatusInFlight ==
  \A c \in CallIds :
    (calls[c].pc = "awaitLedger" /\ ~calls[c].overlapped) =>
      /\ gameState.txStatus \notin {"SUCCESS", "REJECTED"}
      /\ gameState.txHash = Null

C11_CreateReturnsGameId ==
  [][\A c \in CallIds :
       (Returns(c) /\ calls[c].op = "createGame"
          /\ calls[c].pc = "awaitReceipt" /\ lastReturn'.success) =>
         /\ lastReturn'.gameId # Null
         /\ lastReturn'.gameId = currentGame'.id]_vars

\* C12: a step that is not a step of a lifecycle invocation either leaves
\* the exposed transaction state as it is, or is resetGameState: it puts
\* every field back to its initial value, clears isProcessing, and touches
\* nothing else of the outcome.
C12_OutcomeKeptUntilReset ==
  [][calls' = calls =>
       \/ gameState' = gameState
       \/ /\ gameState' = InitialGameState
          /\ isProcessing' = FALSE
          /\ UNCHANGED <<currentGame, gameStarted, lastReturn, confirmLog,
                         revertLog>>]_vars

\* a rejected attempt was reset: nothing in flight, the revert is logged,
\* and the exposed state is the initial one again
C12_Witness ==
  /\ InFlightCalls = {}
  /\ revertLog # {}
  /\ confirmLog = {}
  /\ lastReturn.call # 0
  /\ ~lastReturn.success
  /\ gameState = InitialGameState
  /\ ~isProcessing

\* ------------------------------------------------ claims on GameInterface
\* the snapshot requests the request effect emitted
AutoRequests(log) == {i \in 1..Len(log) : log[i].by = "effect"}

\* the step is a run of the identity effect
IdentityEffectRuns == identityEffectDue /\ ~identityEffectDue'

\* C13: once the effective identity is resolved it never changes, whatever
\* the live source or the stored fallback do afterwards.
C13_IdentityFrozen ==
  [][(contextLoaded /\ Complete(EffectiveIdentity)) =>
       UNCHANGED <<effectiveGameId, effectivePlayerId,
                   effectivePlayerName>>]_vars

\* C14: a run of the identity effect with a complete live identity makes it
\* the effective identity without reading the stored fallback; with an
\* incomplete live identity it reads the fallback, and takes it only if it
\* holds all three values (otherwise the effective identity stays as it is).
\* Whenever the effect has run for a complete live identity, the effective
\* identity is the live one.
C14_LivePrecedence ==
  [][/\ IdentityEffectRuns =>
          IF Complete(socketContext)
          THEN /\ EffectiveIdentity' = IdentityOf(socketContext)
               /\ ~storageRead'
          ELSE /\ storageRead'
               /\ EffectiveIdentity' =
                    IF StoredUsable(storedGameInfo)
                    THEN IdentityOf(storedGameInfo)
                    ELSE EffectiveIdentity
     /\ (~identityEffectDue' /\ Complete(socketContext')) =>
          EffectiveIdentity' = IdentityOf(socketContext')]_vars

\* the live identity won over a different, complete stored one
C14_Witness ==
  /\ ~identityEffectDue
  /\ contextLoaded
  /\ Complete(socketContext)
  /\ StoredUsable(storedGameInfo)
  /\ IdentityOf(storedGameInfo) # IdentityOf(socketContext)
  /\ EffectiveIdentity = IdentityOf(socketContext)
  /\ ~storageRead

\* C15: the request effect emits 'get-game-state' at most once, and only in
\* a state with a socket, a loaded identity, a game id and a connection; the
\* request names the effective game id; and once the effects have settled
\* in such a state the request has been emitted, exactly once.  (Clicks on
\* Retry are the user's requests and are logged apart.)
C15_RequestedOnce ==
  [][/\ Cardinality(AutoRequests(emitted')) <= 1
     /\ AutoRequests(emitted') # AutoRequests(emitted) =>
          /\ RequestPossible
          /\ emitted'[Len(emitted')].gameId = effectiveGameId
     /\ (~requestEffectDue' /\ ~identityEffectDue' /\ RequestPossible') =>
          Cardinality(AutoRequests(emitted')) = 1]_vars

\* the request went out, and the effect has since been re-evaluated with the
\* connection still up
C15_Witness ==
  /\ emitted = <<GetGameState("effect")>>
  /\ gameStateRequestedRef
  /\ requestedSinceConnect
  /\ ~requestEffectDue
  /\ ~identityEffectDue
  /\ RequestPossible

\* C16: once the effects have settled in a state where a request is
\* possible, a request was emitted since the connection last came up: a
\* reconnect re-arms the guard.
C16_RequestAfterReconnect ==
  (~requestEffectDue /\ ~identityEffectDue /\ RequestPossible) =>
    requestedSinceConnect

\* the step enters the handler of a socket event
EventHandled == nEvents' = nEvents + 1

\* the step is a run of the finished / rematch effect
FinishedEffectRuns == finishedEffectDeps' # finishedEffectDeps

\* the messages addNotification was called with in the step, in call order
EmittedInStep ==
  IF Len(notificationTimers') > Len(notificationTimers)
  THEN SubSeq(notificationTimers', Len(notificationTimers) + 1,
              Len(notificationTimers'))
  ELSE <<>>

Occurs(message, list) == \E i \in 1..Len(list) : list[i] = message

TerminalMessages ==
  {FinishedMessage} \cup {WinnerMessage(w) : w \in Winners \ {NoWinner}}

\* C17: a 'game-state' event that carries a state makes that state the
\* component's game state, whole: nothing of the previous state is kept.
C17_SnapshotReplaces ==
  [][(EventHandled /\ lastEvent'.kind = "game-state"
        /\ lastEvent'.state # NoSession) =>
       sessionState' = lastEvent'.state]_vars

\* a snapshot with three players replaced what the component had
C17_Witness ==
  /\ nEvents >= 3
  /\ lastEvent.kind = "game-state"
  /\ lastEvent.state.players = <<"Alice", "Bob", "Carol">>
  /\ sessionState = lastEvent.state

\* C18: the terminal notifications are emitted only by the step that sets
\* the terminal flag, which sees status finished: that step opens the winner
\* modal and emits the finished notification once, followed by one winner
\* notification with the winner's name and score if the state has a winner;
\* while the flag is set no terminal notification is emitted, and a run of
\* the effect that sees finished with the flag clear sets it.
C18_TerminalOnce ==
  [][/\ gameFinished =>
          \A m \in TerminalMessages : ~Occurs(m, EmittedInStep)
     /\ (~gameFinished /\ gameFinished') =>
          /\ sessionState.status = "finished"
          /\ showWinnerModal'
          /\ EmittedInStep =
               <<FinishedMessage>> \o
                 (IF sessionState.winner # NoWinner
                  THEN <<WinnerMessage(sessionState.winner)>> ELSE <<>>)
     /\ (\E m \in TerminalMessages : Occurs(m, EmittedInStep)) =>
          (~gameFinished /\ gameFinished')
     /\ (FinishedEffectRuns /\ sessionState.status = "finished"
           /\ ~gameFinished) => gameFinished']_vars

\* Bob's win was announced once; a later finished state naming Alice was
\* rendered and announced nothing
C18_Witness ==
  /\ gameFinished
  /\ sessionState.status = "finished"
  /\ sessionState.winner.name = "Alice"
  /\ finishedEffectDeps = FinishedEffectDepsOf(sessionState, gameFinished)
  /\ notifications =
       <<WinnerMessage([name |-> "Bob", finalScore |-> 95]), FinishedMessage>>
  /\ Len(notificationTimers) = 2

\* C19: a run of the effect that sees status waiting with the terminal flag
\* set clears the flag and the winner modal and emits exactly the rematch
\* notification; the rematch notification is emitted by no other step; and a
\* run that then sees finished with the flag clear sets the flag and emits
\* the finished notification again.
C19_RematchRearms ==
  [][/\ (FinishedEffectRuns /\ sessionState.status = "waiting"
           /\ gameFinished) =>
          /\ ~gameFinished'
          /\ ~showWinnerModal'
          /\ EmittedInStep = <<RematchMessage>>
     /\ Occurs(RematchMessage, EmittedInStep) =>
          (gameFinished /\ sessionState.status = "waiting")
     /\ (FinishedEffectRuns /\ sessionState.status = "finished"
           /\ ~gameFinished) =>
          /\ gameFinished'
          /\ Occurs(FinishedMessage, EmittedInStep)]_vars

\* finished, rematch, finished again: the three notifications are in the
\* buffer in that order (newest first) and the flag is set again
C19_Witness ==
  /\ gameFinished
  /\ showWinnerModal
  /\ sessionState.status = "finished"
  /\ \E i, j, k \in 1..Len(notifications) :
       /\ i < j /\ j < k
       /\ notifications[i] = FinishedMessage
       /\ notifications[j] = RematchMessage
       /\ notifications[k] = FinishedMessage

\* C20: the handlers of 'player-joined', 'player-disconnected' and 'error'
\* change neither the game state, nor the effective identity, nor anything
\* of the transaction coordinator or the app store.
C20_AdvisoryEventsInert ==
  [][(EventHandled
        /\ lastEvent'.kind \in {"player-joined", "player-disconnected",
                                "error"}) =>
       /\ UNCHANGED <<sessionState, gameFinished, showWinnerModal,
                      notifications>>
       /\ UNCHANGED <<effectiveGameId, effectivePlayerId,
                      effectivePlayerName, contextLoaded>>
       /\ UNCHANGED hookVars]_vars

\* a player joined while the component held a two-player state, which it
\* still holds
C20_Witness ==
  /\ lastEvent.kind = "player-joined"
  /\ sessionState.status = "waiting"
  /\ sessionState.players = <<"Alice", "Bob">>
  /\ EffectiveIdentity = IdentityA

\* C21: the handler of each 'player-joined', 'player-disconnected' and
\* 'error' event adds a notification.
C21_AdvisoryEventsNotify ==
  [][(EventHandled
        /\ lastEvent'.kind \in {"player-joined", "player-disconnected",
                                "error"}) =>
       EmittedInStep # <<>>]_vars

\* C22: the 'game-closed' handler adds the notification with the reason and
\* sets the exit timer, without leaving; clearGameInfo() and onExitGame()
\* are called only by a timer set by such a handler, once per timer; and
\* whenever such a timer is pending, eventually all pending ones have made
\* their exit.
C22_ClosedNotifiesThenExits ==
  /\ [][/\ (EventHandled /\ lastEvent'.kind = "game-closed") =>
             /\ EmittedInStep = <<ClosedMessage(lastEvent'.playerName)>>
             /\ Occurs(ClosedMessage(lastEvent'.playerName), notifications')
             /\ exitTimers' = exitTimers + 1
             /\ UNCHANGED <<clearGameInfoCalls, onExitGameCalls>>
        /\ (onExitGameCalls' # onExitGameCalls
              \/ clearGameInfoCalls' # clearGameInfoCalls) =>
             /\ exitTimers > 0
             /\ exitTimers' = exitTimers - 1
             /\ onExitGameCalls' = onExitGameCalls + 1
             /\ clearGameInfoCalls' = clearGameInfoCalls + 1]_vars
  /\ (exitTimers > 0) ~> (exitTimers = 0)

\* two 'game-closed' events were handled and both exits were made
C22_Witness ==
  /\ lastEvent.kind = "game-closed"
  /\ onExitGameCalls = 2
  /\ clearGameInfoCalls = 2
  /\ exitTimers = 0

\* C23: when a snapshot is handled while the app store holds the Game object
\* createGame wrote on confirmation, what the store holds afterwards agrees
\* with the snapshot: the player count is the snapshot's, and gameStarted is
\* set only if the snapshot says playing.
C23_SnapshotOverwritesOptimistic ==
  [][(EventHandled /\ lastEvent'.kind = "game-state"
        /\ lastEvent'.state # NoSession /\ currentGame # NoGame) =>
       /\ currentGame'.num_players = Len(lastEvent'.state.players)
       /\ gameStarted' = (lastEvent'.state.status = "playing")]_vars

\* C24: with no game state the per-round view is empty; with a game state
\* whose in-progress list and round number are defined, it is the history
\* with the in-progress list put at the live round number, whatever the
\* round number and whether or not the list is empty.
C24_ViewIsOverlay ==
  /\ ~viewState.present => actionsByRound = {}
  /\ (viewState.present /\ viewState.hasRecentActions
        /\ viewState.hasCurrentRound) =>
       actionsByRound =
         Overlaid(viewState.actionHistory, viewState.currentRound,
                  viewState.recentActions)

\* the step is an invocation of handleAction
Submitted == submits' = submits + 1

\* the 'player-action' payloads among the emitted messages
ActionsEmitted(log) ==
  {i \in 1..Len(log) : log[i].event = "player-action"}

\* C25: an invocation of handleAction with a current player and amount > 0
\* sets amount to 1 and targetPlayer to '' in that very step, with or
\* without a socket; with a socket the step emits the action with the values
\* the form held; a later 'error' event changes neither field.
C25_SubmitResetsForm ==
  [][/\ (Submitted /\ ~SubmitRefused) =>
          /\ amount' = 1
          /\ targetPlayer' = ""
          /\ emitted' = IF socketContext.socket
                        THEN Append(emitted, ActionData) ELSE emitted
     /\ EventHandled => UNCHANGED <<amount, targetPlayer>>]_vars

\* three units were submitted as a sabotage of Bob, the form is reset, and
\* the stream has since reported an error
C25_Witness ==
  /\ submits = 1
  /\ Len(emitted) = 2
  /\ emitted[2].event = "player-action"
  /\ emitted[2].amount = 3
  /\ emitted[2].targetPlayer = "Bob"
  /\ amount = 1
  /\ targetPlayer = ""
  /\ lastEvent.kind = "error"

\* C26: an invocation of handleAction without a current player or with
\* amount <= 0 emits nothing and changes nothing but the count of
\* invocations; an emitted action carries a target only if it is a sabotage.
C26_InvalidSubmitInert ==
  [][/\ (Submitted /\ SubmitRefused) =>
          /\ emitted' = emitted
          /\ UNCHANGED <<currentPlayer, selectedAction, selectedResource,
                         amount, targetPlayer>>
          /\ UNCHANGED <<hookVars, identityVars, sessionVars, exitVars,
                         viewState, stageVars,
                 playerVars>>
     /\ \A i \in ActionsEmitted(emitted') :
          emitted'[i].action # "sabotage" =>
            emitted'[i].targetPlayer = Null]_vars

\* no state was ever received, so no current player: the one submission, of
\* three units against Bob, was refused and the form is as it was
C26_Witness ==
  /\ submits = 1
  /\ sessionState = NoSession
  /\ currentPlayer = Null
  /\ socketContext.socket
  /\ ActionsEmitted(emitted) = {}
  /\ amount = 3
  /\ targetPlayer = "Bob"

\* the messages of a step's addNotification calls, last call first
Reversed(messages) ==
  [i \in 1..Len(messages) |-> messages[Len(messages) + 1 - i]]

\* what is left of the list when n entries are put in front of it
KeptAfter(list, n) ==
  SubSeq(list, 1, IF Len(list) + n <= 5 THEN Len(list) ELSE 5 - n)

\* C27: the notification list never holds more than 5 entries; a step that
\* calls addNotification puts its messages in front, the last call first,
\* and keeps the entries that were there in their order, dropping from the
\* far end (the entries inserted earliest) only what exceeds 5; an expiry
\* only removes entries and keeps the order of the rest.
C27_BufferBounded ==
  /\ [](Len(notifications) <= 5)
  /\ [][/\ EmittedInStep # <<>> =>
             notifications' = Reversed(EmittedInStep)
                                \o KeptAfter(notifications,
                                             Len(EmittedInStep))
        /\ Len(notificationTimers') < Len(notificationTimers) =>
             \E gone \in SUBSET (1..Len(notifications)) :
               notifications' =
                 SelectSeq([i \in 1..Len(notifications) |->
                              IF i \in gone THEN Null ELSE notifications[i]],
                           LAMBDA n : n # Null)]_vars

\* six insertions without an expiry: the list is full and the first
\* insertion, the first "Game finished!", has been dropped from its end
C27_Witness ==
  /\ Len(notificationTimers) = 6
  /\ Len(notifications) = 5
  /\ notificationTimers[1] = FinishedMessage
  /\ notifications[5] = notificationTimers[2]
  /\ notifications[1] = notificationTimers[6]

\* C28: each notification is removed by its own expiry, independently of
\* the others: the timeout of one entry removes at most that one entry from
\* the list, also when a later entry has the same text.
C28_ExpiryPerEntry ==
  [][Len(notificationTimers') < Len(notificationTimers) =>
       Len(notifications') >= Len(notifications) - 1]_vars

\* C29: once a state has been received the session stays present until the
\* exit: as long as onExitGame has not been called, no step takes
\* sessionState back to null.
C29_SessionStaysPresent ==
  [][(sessionState # NoSession /\ onExitGameCalls' = 0) =>
       sessionState' # NoSession]_vars

\* C30: every run of the identity effect leaves contextLoaded true, whether
\* or not the context or the stored record gave an identity, and no step
\* takes contextLoaded back to false.
C30_ResolutionCompletes ==
  [][/\ IdentityEffectRuns => contextLoaded'
     /\ contextLoaded => contextLoaded']_vars

\* the context had no identity and the stored record could not be parsed:
\* the effect has run, nothing is resolved, and the context counts as loaded
C30_Witness ==
  /\ contextLoaded
  /\ ~identityEffectDue
  /\ storageRead
  /\ storedGameInfo.kind = "corrupt"
  /\ EffectiveIdentity = NoIdentity

\* C31: whenever no createGame, joinGame or startGame is in flight, the
\* isProcessing the hook returns (gameState.isProcessing) is false, and so
\* is the store's isLoading once the sync effect has copied it.
C31_IdleMeansNotProcessing ==
  InFlightCalls = {} =>
    /\ ~gameState.isProcessing
    /\ (isLoading = gameState.isProcessing => ~isLoading)

\* C32: with the effects settled, a finished state with a winner and the
\* winner-modal flag set (the modal was not dismissed) is shown in the game
\* view, the view that renders the modal.
C32_WinnerModalVisible ==
  (/\ EffectsSettled
   /\ sessionState.status = "finished"
   /\ sessionState.winner # NoWinner
   /\ showWinnerModal) => ActiveView = "game"

\* C33: every click on an exit button, in whatever view, emits 'exit-game'
\* with the effective game and player id if there is a socket and both ids,
\* and calls clearGameInfo() along with onExitGame().
C33_ExitEmitsAndClears ==
  [][exitClicks' = exitClicks + 1 =>
       /\ emitted' = IF ExitEmits THEN Append(emitted, ExitGameMessage)
                     ELSE emitted
       /\ clearGameInfoCalls' = clearGameInfoCalls + 1
       /\ onExitGameCalls' = onExitGameCalls + 1]_vars

\* C34: clearGameInfo() and onExitGame() are called at most once each,
\* whatever 'game-closed' events and exit clicks come before the exit.
C34_ExitAtMostOnce ==
  /\ onExitGameCalls <= 1
  /\ clearGameInfoCalls <= 1

\* the effects of usePlayer have run for the present account and no fetch
\* for its address is awaited
PlayerSettled ==
  /\ playerEffectDeps = <<UserAddress, playerAccount>>
  /\ \A i \in 1..Len(playerFetches) : playerFetches[i] # UserAddress

\* C35: with usePlayer settled, a player in the store is the player of the
\* present account's address; without an account the store holds no player,
\* whatever fetches started earlier complete.
C35_PlayerBelongsToAccount ==
  (PlayerSettled /\ storePlayer # NoPlayer) =>
    storePlayer.address = UserAddress

====
